---- MODULE Spec2Model ----
(***************************************************************************)
(* Pixel streaming receivers of the LED-matrix sketches:                   *)
(*   x1_serial_rgb_client and j8_pixel_art  (serial, marker-framed)        *)
(*   x2_wirelss_rgb_client                  (UDP, chunked)                 *)
(* and the RGB565 decode they share.                                       *)
(*                                                                         *)
(* The 32x32 matrix is scaled down: MatrixPixels stands for                *)
(* TOTAL_WIDTH * TOTAL_HEIGHT (1024 in the sources).  BUFFER_SIZE and      *)
(* CHUNK_SIZE keep their ratio to it (2 bytes per pixel, two chunks per    *)
(* frame).                                                                 *)
(***************************************************************************)
EXTENDS Integers, Sequences, FiniteSets, TLC

VARIABLES
    sketch,          \* which firmware runs: "serial" (x1 or j8) or "x2"
    rx,              \* serial receive FIFO: bytes sent and not yet read
    udpq,            \* UDP socket: datagrams received and not yet parsed
    buf,             \* uint8_t buf[BUFFER_SIZE], the Incoming Wire Buffer
    receivedChunks,  \* uint8_t receivedChunks[8] (x2), by truth value
    presented,       \* the frame last handed to the display by swapBuffers
    fresh,           \* observation (x2): indices of buf written since the last decode
    torn,            \* observation (serial): a payload was torn since the last frame
    ev,              \* observation: what the last loop iteration did
    hi, lo,          \* decode check: the two wire bytes of one pixel
    rgb,             \* decode check: the decoded pixel
    dec,             \* decode check: the decoder that produced rgb
    script,          \* delivery check: datagrams the sender still has to send
    sent,            \* delivery check: datagrams the sender has sent, in order
    shown,           \* observation: the frames handed to the display, in order
    stream,          \* stream check: the serial stream the host wrote before loop() ran
    boot,            \* x2: position in setup(), WiFi status, time since connectionStart
    app              \* the state of the sketches that receive no pixel stream

vars == <<sketch, rx, udpq, buf, receivedChunks, presented, fresh, torn, ev,
          hi, lo, rgb, dec, script, sent, shown, stream, boot, app>>

serialVars == <<rx, torn>>
udpVars    == <<udpq, receivedChunks>>
decodeVars == <<hi, lo, rgb, dec>>
scriptVars == <<script, sent>>
auxVars    == <<shown, stream, boot, app>>

----------------------------------------------------------------------------
(* Sizes *)

\* TOTAL_WIDTH * TOTAL_HEIGHT, scaled down from 32 * 32
MatrixPixels == 2

INCOMING_COLOR_DEPTH == 16
NUM_LEDS    == MatrixPixels
BUFFER_SIZE == NUM_LEDS * (INCOMING_COLOR_DEPTH \div 8)
\* 1024 in the source, half of BUFFER_SIZE (2048): scaled with the matrix
CHUNK_SIZE  == BUFFER_SIZE \div 2
HEADER_SIZE == 2
\* sizeof(receivedChunks)
RECEIVED_CHUNKS_LEN == 8
\* '*'
MARKER == 42

BufIdx   == 0 .. (BUFFER_SIZE - 1)
PixelIdx == 0 .. (NUM_LEDS - 1)
FlagIdx  == 0 .. (RECEIVED_CHUNKS_LEN - 1)

\* Bytes the senders put on the wire: the marker value and 0xFF
ByteVals == {42, 255}

\* The serial FIFO holds at most one marker and one payload
MaxRx == BUFFER_SIZE + 1

Min(a, b) == IF a < b THEN a ELSE b

----------------------------------------------------------------------------
(* Pixels *)

\* A pixel of the drawing buffer that the current iteration has not written:
\* after a swap the drawing buffer holds an older frame.
Stale == <<-1, -1, -1>>
Black == <<0, 0, 0>>

U8(v)  == v % 256
U16(v) == v % 65536

\* mutant: red expanded by replicating its high bits into the low 3 bits
convert16to24bit_replicate(high, low) ==
    LET rgb16 == U16(high * 256) + low
        r5    == (rgb16 \div 2048) % 32
    IN  << U8(r5 * 8) + (r5 \div 4),
           U8(((rgb16 \div 32) % 64) * 4),
           U8((rgb16 % 32) * 8) >>

\* mutant: green is masked with 0x1F, like red and blue
convert16to24bit_green5(high, low) ==
    LET rgb16 == U16(high * 256) + low
    IN  << U8(((rgb16 \div 2048) % 32) * 8),
           U8(((rgb16 \div 32) % 32) * 4),
           U8((rgb16 % 32) * 8) >>

\* x2: convert16to24bit(high, low, col)
convert16to24bit(high, low) ==
    LET rgb16 == U16(high * 256) + low          \* ((uint16_t)high << 8) | low
    IN  << U8(((rgb16 \div 2048) % 32) * 8),    \* ((rgb16 >> 11) & 0x1F) << 3
           U8(((rgb16 \div 32) % 64) * 4),      \* ((rgb16 >> 5)  & 0x3F) << 2
           U8((rgb16 % 32) * 8) >>              \* (rgb16 & 0x1F) << 3

\* x1: the r5 / g6 / b5 decode of the 16-bit branch
decode_x1(high, low) ==
    LET rgb16 == U16(high * 256) + low
        r5    == U8((rgb16 \div 2048) % 32)
        g6    == U8((rgb16 \div 32) % 64)
        b5    == U8(rgb16 % 32)
    IN  << U8(r5 * 8), U8(g6 * 4), U8(b5 * 8) >>

\* mutant: the two wire bytes are taken low byte first
decode_j8_swapped(high, low) ==
    LET rgb16 == U16(low * 256) + high
    IN  << U8(((rgb16 \div 2048) % 32) * 8),
           U8(((rgb16 \div 32) % 64) * 4),
           U8((rgb16 % 32) * 8) >>

\* j8: the inline decode
decode_j8(high, low) ==
    LET rgb16 == U16(high * 256) + low
    IN  << U8(((rgb16 \div 2048) % 32) * 8),
           U8(((rgb16 \div 32) % 64) * 4),
           U8((rgb16 % 32) * 8) >>

\* rgb24 *buffer = bg.backBuffer()
backBuffer == [i \in PixelIdx |-> Stale]

\* mutant: the pixels are stored in reverse order
RECURSIVE DecodeLoop_x1_reversed(_, _, _, _)
DecodeLoop_x1_reversed(buffer, b, i, idx) ==
    IF i < NUM_LEDS
    THEN DecodeLoop_x1_reversed(
             [buffer EXCEPT ![NUM_LEDS - 1 - i] = decode_x1(b[idx], b[idx + 1])],
             b, i + 1, idx + 2)
    ELSE buffer

\* x1: for (i = 0; i < NUM_LEDS; i++) { high = buf[idx++]; low = buf[idx++]; ... }
RECURSIVE DecodeLoop_x1(_, _, _, _)
DecodeLoop_x1(buffer, b, i, idx) ==
    IF i < NUM_LEDS
    THEN DecodeLoop_x1([buffer EXCEPT ![i] = decode_x1(b[idx], b[idx + 1])],
                       b, i + 1, idx + 2)
    ELSE buffer

\* j8: for (i = 0; i < NUM_LEDS; i++) { idx = i * 2; ... }
RECURSIVE DecodeLoop_j8(_, _, _)
DecodeLoop_j8(buffer, b, i) ==
    IF i < NUM_LEDS
    THEN DecodeLoop_j8([buffer EXCEPT ![i] = decode_j8(b[i * 2], b[i * 2 + 1])],
                       b, i + 1)
    ELSE buffer

\* mutant: the loop stops one pixel early
RECURSIVE DecodeLoop_x2_short(_, _, _, _)
DecodeLoop_x2_short(buffer, b, i, idx) ==
    IF i < NUM_LEDS - 1
    THEN DecodeLoop_x2_short(
             [buffer EXCEPT ![i] = convert16to24bit(b[idx], b[idx + 1])],
             b, i + 1, idx + 2)
    ELSE buffer

\* x2: for (i = 0; i < NUM_LEDS; i++, idx += 2) convert16to24bit(buf[idx], buf[idx+1], &buffer[i])
RECURSIVE DecodeLoop_x2(_, _, _, _)
DecodeLoop_x2(buffer, b, i, idx) ==
    IF i < NUM_LEDS
    THEN DecodeLoop_x2([buffer EXCEPT ![i] = convert16to24bit(b[idx], b[idx + 1])],
                       b, i + 1, idx + 2)
    ELSE buffer

\* Pixels of the drawing buffer the current iteration wrote
Written(buffer) == {i \in PixelIdx : buffer[i] # Stale}

----------------------------------------------------------------------------
(* Observation of one loop iteration *)

NoEvent ==
    [kind |-> "none", by |-> "none", swaps |-> 0, written |-> 0,
     populated |-> 0, count |-> 0, chunkIndex |-> 0, totalChunks |-> 0,
     dup |-> FALSE, wasTorn |-> FALSE, oob |-> {},
     reads |-> 0]       \* calls of Serial.readBytes in the iteration

\* The display log: frames handed to the display, the wire buffer each was
\* decoded from, the number of datagrams handled when each was handed over,
\* and whether an iteration without a datagram ran while a frame was pending.
\* The log is kept only where a check needs it (on).
NoLog == [on |-> FALSE, frames |-> <<>>, payloads |-> <<>>, at |-> <<>>,
          waited |-> FALSE]
EmptyLog == [NoLog EXCEPT !.on = TRUE]

Shown(h, frame, payload, n) ==
    IF h.on
    THEN [h EXCEPT !.frames = Append(@, frame),
                   !.payloads = Append(@, payload),
                   !.at = Append(@, n)]
    ELSE h

----------------------------------------------------------------------------
(* Serial receivers: x1_serial_rgb_client and j8_pixel_art.  The two       *)
(* sketches hold the same state, so one copy of it serves both: a step is  *)
(* one iteration of either sketch's loop().                                *)

\* Serial.read(): the next byte, or -1 when none is available
Serial_read == IF rx = <<>> THEN -1 ELSE Head(rx)

\* mutant: the read takes everything the FIFO holds
ReadCount_all(q) == Len(q)

\* mutant: the read stops in front of a byte equal to the marker
ReadCount_toMarker(q) ==
    LET n    == IF Len(q) < BUFFER_SIZE THEN Len(q) ELSE BUFFER_SIZE
        hits == {k \in 1 .. n : q[k] = MARKER}
    IN  IF hits = {} THEN n
        ELSE (CHOOSE k \in hits : \A j \in hits : k <= j) - 1

\* mutant: the read stops one byte early
ReadCount_less(q) == Min(Len(q), BUFFER_SIZE - 1)

\* Serial.readBytes(buf, BUFFER_SIZE) on the FIFO q: the bytes that arrive
\* before the 1 ms timeout are the ones the FIFO holds
ReadCount(q) == Min(Len(q), BUFFER_SIZE)

ReadInto(b, q) ==
    [k \in BufIdx |-> IF k < ReadCount(q) THEN q[k + 1] ELSE b[k]]

\* The decode of the sketch named by
SerialDecode(by, b) ==
    IF by = "x1"
    THEN DecodeLoop_x1(backBuffer, b, 0, 0)
    ELSE DecodeLoop_j8(backBuffer, b, 0)

\* mutant: any non-empty read is decoded
FullRead_any(count) == count > 0

\* if (count == BUFFER_SIZE)
FullRead(count) == count = BUFFER_SIZE

\* mutant: every value of chr starts a payload read
IsMarker_any(chr) == chr >= 0

\* mutant: a zero byte starts a payload read too
IsMarker_orZero(chr) == chr = MARKER \/ chr = 0

\* if (chr == '*')
IsMarker(chr) == chr = MARKER

\* One iteration of loop() of the serial sketch named by
SerialLoop(by) ==
    /\ sketch = "serial"
    /\ LET chr  == U8(Serial_read)                     \* char chr = Serial.read()
           rest == IF rx = <<>> THEN <<>> ELSE Tail(rx)
           obs  == [NoEvent EXCEPT !.by = "serial", !.wasTorn = torn]
       IN  IF IsMarker(chr)
           THEN LET count  == ReadCount(rest)
                    buf1   == ReadInto(buf, rest)
                    buffer == SerialDecode(by, buf1)
                IN  /\ rx'  = SubSeq(rest, count + 1, Len(rest))
                    /\ buf' = buf1
                    /\ IF FullRead(count)
                       THEN /\ presented' = buffer      \* bg.swapBuffers(false)
                            /\ torn' = FALSE
                            /\ shown' = Shown(shown, buffer, buf1, 0)
                            /\ ev' = [obs EXCEPT !.kind = "frame", !.swaps = 1,
                                         !.written = Cardinality(Written(buffer)),
                                         !.populated = count,
                                         !.count = count,
                                         !.reads = 1]
                       ELSE /\ presented' = presented
                            /\ torn' = TRUE
                            /\ shown' = shown
                            /\ ev' = [obs EXCEPT !.kind = "short", !.count = count,
                                         !.reads = 1]
           ELSE /\ rx' = rest
                /\ ev' = [obs EXCEPT !.kind = IF rx = <<>> THEN "idle" ELSE "skip"]
                /\ UNCHANGED <<buf, presented, torn, shown>>
    /\ UNCHANGED <<sketch, fresh, udpVars, decodeVars, scriptVars, stream, boot, app>>

loop_x1 == SerialLoop("x1")
loop_j8 == SerialLoop("j8")

\* The host writes one byte to the serial port
Send(b) ==
    /\ sketch = "serial"
    /\ Len(rx) < MaxRx
    /\ rx' = Append(rx, b)
    /\ ev' = NoEvent
    /\ UNCHANGED <<sketch, buf, presented, fresh, torn, udpVars, decodeVars,
                   scriptVars, auxVars>>

SendByte == \E b \in ByteVals : Send(b)

----------------------------------------------------------------------------
(* Chunked receiver: x2_wirelss_rgb_client *)

\* Two sender frames whose bytes differ at every position
Frames == {"A", "B"}
FrameByte(f, k) ==
    LET a == IF k % 3 = 0 THEN 255 ELSE 42
    IN  IF f = "A" THEN a ELSE 297 - a

\* Header values that reach every branch: chunk 0 and 1 lie inside buf,
\* chunk 2 lies past its end, chunk 8 lies past the end of receivedChunks too
ChunkIndexVals  == {0, 1, 2, 8}
TotalChunksVals == {0, 1, 2, 3}
\* Payload lengths: short, full, and one byte more than a chunk
DataSizeVals == {1, CHUNK_SIZE, CHUNK_SIZE + 1}

\* The payload of a datagram cut from sender frame f at its chunk's offset
Slice(f, chunkIndex, len) ==
    [j \in 1 .. len |-> FrameByte(f, (chunkIndex * CHUNK_SIZE + j - 1) % BUFFER_SIZE)]

Datagram(chunkIndex, totalChunks, data) ==
    [size |-> HEADER_SIZE + Len(data), chunkIndex |-> chunkIndex,
     totalChunks |-> totalChunks, data |-> data]

\* A datagram of one byte: chunkIndex only
Runt == [size |-> 1, chunkIndex |-> 0, totalChunks |-> 0, data |-> <<>>]

Datagrams ==
    {Runt}
    \cup {Datagram(c, t, <<>>) : c \in {0, 1}, t \in TotalChunksVals}
    \cup UNION {{Datagram(c, t, Slice("A", c, len)) :
                    c \in ChunkIndexVals, t \in TotalChunksVals}
                : len \in DataSizeVals}

\* bg.drawString(0, 0, {255,0,0}, "F:0"): the glyph pixels, scaled to the first pixel
DebugTextPixels == {0}
drawString(buffer) ==
    [i \in PixelIdx |-> IF i \in DebugTextPixels THEN <<255, 0, 0>> ELSE buffer[i]]

\* mutant: the offset is the chunk index, not multiplied by CHUNK_SIZE
CopyChunk_unscaled(b, chunkIndex, data) ==
    [k \in BufIdx |->
        IF k >= chunkIndex /\ k < chunkIndex + Len(data)
        THEN data[k - chunkIndex + 1]
        ELSE b[k]]

\* mutant: bytes already received are kept, only empty positions are filled
CopyChunk_keep(b, chunkIndex, data) ==
    [k \in BufIdx |->
        IF k >= chunkIndex * CHUNK_SIZE /\ k < chunkIndex * CHUNK_SIZE + Len(data)
           /\ b[k] = 0
        THEN data[k - chunkIndex * CHUNK_SIZE + 1]
        ELSE b[k]]

\* udp.read(&buf[chunkIndex * CHUNK_SIZE], dataSize): the bytes that land in buf
CopyChunk(b, chunkIndex, data) ==
    [k \in BufIdx |->
        IF k >= chunkIndex * CHUNK_SIZE /\ k < chunkIndex * CHUNK_SIZE + Len(data)
        THEN data[k - chunkIndex * CHUNK_SIZE + 1]
        ELSE b[k]]

\* Indices of buf that udp.read writes
ChunkTouched(chunkIndex, data) ==
    {k \in BufIdx : k >= chunkIndex * CHUNK_SIZE
                    /\ k < chunkIndex * CHUNK_SIZE + Len(data)}

\* The copy runs past the end of buf
BufOverrun(chunkIndex, data) ==
    chunkIndex * CHUNK_SIZE + Len(data) > BUFFER_SIZE

\* A build that places receivedChunks right behind buf: the bytes written past
\* buf land on the flags (every payload byte the senders use is non-zero)
Spill(rc, chunkIndex, data) ==
    [i \in FlagIdx |->
        IF BUFFER_SIZE + i >= chunkIndex * CHUNK_SIZE
           /\ BUFFER_SIZE + i < chunkIndex * CHUNK_SIZE + Len(data)
        THEN 1 ELSE rc[i]]

\* mutant: recording a chunk forgets the chunks recorded before it
MarkChunk_only(rc, chunkIndex) ==
    [i \in DOMAIN rc |-> IF i = chunkIndex THEN 1 ELSE 0]

\* receivedChunks[chunkIndex] = 1; past the array the write misses the flags
MarkChunk(rc, chunkIndex) ==
    IF chunkIndex < RECEIVED_CHUNKS_LEN THEN [rc EXCEPT ![chunkIndex] = 1] ELSE rc

\* for (i = 0; i < totalChunks && complete; i++) complete = receivedChunks[i];
\* past is what a read past the array returns
RECURSIVE CompleteLoop(_, _, _, _)
CompleteLoop(rc, i, totalChunks, past) ==
    IF i < totalChunks
    THEN IF i < RECEIVED_CHUNKS_LEN
         THEN rc[i] # 0 /\ CompleteLoop(rc, i + 1, totalChunks, past)
         ELSE past /\ CompleteLoop(rc, i + 1, totalChunks, past)
    ELSE TRUE

\* Out-of-bounds accesses of one datagram
OobOf(d, rc) ==
    (IF BufOverrun(d.chunkIndex, d.data) THEN {"buf_write"} ELSE {})
    \cup (IF d.chunkIndex >= RECEIVED_CHUNKS_LEN THEN {"flag_write"} ELSE {})
    \cup (IF d.totalChunks > RECEIVED_CHUNKS_LEN
             /\ \A i \in FlagIdx : rc[i] # 0 THEN {"flag_read"} ELSE {})

\* mutant: the first flag survives the reset
ClearChunks_keepFirst(rc) == [i \in DOMAIN rc |-> IF i = 0 THEN rc[i] ELSE 0]

\* memset(receivedChunks, 0, sizeof(receivedChunks))
ClearChunks(rc) == [i \in DOMAIN rc |-> 0]

\* mutant: a datagram that is all header is handled as a chunk
HasData_orEmpty(dataSize) == dataSize >= 0

\* mutant: if (dataSize)
HasData_nonzero(dataSize) == dataSize # 0

\* if (dataSize > 0)
HasData(dataSize) == dataSize > 0

\* if (dataSize > 0) { ... }: copy, mark, completion check, decode, swap
HandleChunk(d) ==
    \E spill \in (IF BufOverrun(d.chunkIndex, d.data) THEN BOOLEAN ELSE {FALSE}) :
    \E past \in (IF d.totalChunks > RECEIVED_CHUNKS_LEN THEN BOOLEAN ELSE {FALSE}) :
        LET buf1     == CopyChunk(buf, d.chunkIndex, d.data)
            rc0      == IF spill THEN Spill(receivedChunks, d.chunkIndex, d.data)
                        ELSE receivedChunks
            rc1      == MarkChunk(rc0, d.chunkIndex)
            complete == CompleteLoop(rc1, 0, d.totalChunks, past)
            buffer   == DecodeLoop_x2(backBuffer, buf1, 0, 0)
            wrote    == fresh \cup ChunkTouched(d.chunkIndex, d.data)
            obs      == [NoEvent EXCEPT
                            !.by = "x2",
                            !.chunkIndex = d.chunkIndex,
                            !.totalChunks = d.totalChunks,
                            !.count = Len(d.data),
                            !.dup = (d.chunkIndex < RECEIVED_CHUNKS_LEN
                                     /\ receivedChunks[Min(d.chunkIndex, 7)] # 0),
                            !.oob = OobOf(d, rc1)]
        IN  /\ buf' = buf1
            /\ IF complete
               THEN /\ receivedChunks' = ClearChunks(rc1)
                    /\ presented' = drawString(buffer)          \* bg.swapBuffers()
                    /\ fresh' = {}
                    /\ shown' = Shown(shown, drawString(buffer), buf1,
                                      Len(sent) - Len(udpq) + 1)
                    /\ ev' = [obs EXCEPT !.kind = "frame", !.swaps = 1,
                                 !.written = Cardinality(Written(buffer)),
                                 !.populated = Cardinality(wrote)]
               ELSE /\ receivedChunks' = rc1
                    /\ presented' = presented
                    /\ fresh' = wrote
                    /\ shown' = shown
                    /\ ev' = [obs EXCEPT !.kind = "chunk"]

\* One iteration of loop() of x2
loop_x2 ==
    /\ sketch = "x2"
    /\ boot.pc = "loop"                                 \* setup() has returned
    /\ IF udpq = <<>>                                   \* packetSize == 0
       THEN /\ ev' = [NoEvent EXCEPT !.kind = "idle", !.by = "x2"]
            /\ shown' = IF shown.on /\ \E i \in FlagIdx : receivedChunks[i] # 0
                        THEN [shown EXCEPT !.waited = TRUE]
                        ELSE shown
            /\ UNCHANGED <<udpq, buf, receivedChunks, presented, fresh>>
       ELSE LET d        == Head(udpq)
                dataSize == d.size - HEADER_SIZE
            IN  /\ udpq' = Tail(udpq)
                /\ IF HasData(dataSize)
                   THEN HandleChunk(d)
                   ELSE \* a datagram of one byte leaves totalChunks unset
                        \E unset \in (IF d.size < HEADER_SIZE THEN TotalChunksVals
                                      ELSE {d.totalChunks}) :
                        /\ ev' = [NoEvent EXCEPT !.by = "x2",
                                     !.kind = IF d.size < HEADER_SIZE
                                              THEN "runt" ELSE "nodata",
                                     !.chunkIndex = d.chunkIndex,
                                     !.totalChunks = unset]
                        /\ UNCHANGED <<buf, receivedChunks, presented, fresh, shown>>
    /\ UNCHANGED <<sketch, serialVars, decodeVars, scriptVars, stream, boot, app>>

\* The network delivers one datagram to the socket
Arrive(d) ==
    /\ sketch = "x2"
    /\ udpq = <<>>
    /\ udpq' = <<d>>
    /\ ev' = NoEvent
    /\ UNCHANGED <<sketch, buf, receivedChunks, presented, fresh,
                   rx, torn, decodeVars, scriptVars, auxVars>>

ArriveDatagram == \E d \in Datagrams : Arrive(d)

----------------------------------------------------------------------------
(* x2: setup(), the wait for the WiFi connection *)

\* const uint32_t WIFI_TIMEOUT = 20000
WIFI_TIMEOUT == 20000
\* delay(500)
CHECK_DELAY == 500
\* Milliseconds one pass of the while loop takes on top of the delay
LoopOverhead == {0, 1}

\* The device after power-up or ESP.restart(): setup() not yet run
PowerUp == [pc |-> "setup", connected |-> FALSE, elapsed |-> 0, seen |-> FALSE]
\* The device once setup() has returned
Running == [pc |-> "loop", connected |-> TRUE, elapsed |-> 0, seen |-> TRUE]

bootUnchanged ==
    UNCHANGED <<sketch, rx, udpq, buf, receivedChunks, presented, fresh, torn, ev,
                decodeVars, scriptVars, shown, stream, app>>

\* WiFi.begin(ssid, pwd); connectionStart = millis()
WiFi_begin ==
    /\ sketch = "x2" /\ boot.pc = "setup"
    /\ boot' = [boot EXCEPT !.pc = "check", !.elapsed = 0]
    /\ bootUnchanged

\* The access point accepts the station
Join ==
    /\ sketch = "x2" /\ boot.pc \in {"check", "delay"} /\ ~boot.connected
    /\ boot' = [boot EXCEPT !.connected = TRUE]
    /\ bootUnchanged

\* mutant: the loop is left at once, connected or not
KeepWaiting_never(connected) == FALSE

\* while (WiFi.status() != WL_CONNECTED)
KeepWaiting(connected) == ~connected

\* if (millis() - connectionStart > WIFI_TIMEOUT)
TimedOut(elapsed) == elapsed > WIFI_TIMEOUT

\* One evaluation of the while condition and, inside the loop, of the timeout
StatusCheck ==
    /\ sketch = "x2" /\ boot.pc = "check"
    /\ IF KeepWaiting(boot.connected)
       THEN IF TimedOut(boot.elapsed)
            THEN boot' = [boot EXCEPT !.pc = "restart"]      \* ESP.restart()
            ELSE boot' = [boot EXCEPT !.pc = "delay"]
       ELSE boot' = [boot EXCEPT !.pc = "begin", !.seen = boot.connected]
    /\ bootUnchanged

\* delay(500)
Delay ==
    /\ sketch = "x2" /\ boot.pc = "delay"
    /\ \E o \in LoopOverhead :
           boot' = [boot EXCEPT !.pc = "check", !.elapsed = @ + CHECK_DELAY + o]
    /\ bootUnchanged

\* udp.begin(UDP_PORT) and the rest of setup()
udp_begin ==
    /\ sketch = "x2" /\ boot.pc = "begin"
    /\ boot' = [boot EXCEPT !.pc = "loop"]
    /\ bootUnchanged

\* ESP.restart(): the device reboots and setup() runs again
Restart ==
    /\ sketch = "x2" /\ boot.pc = "restart"
    /\ boot' = PowerUp
    /\ bootUnchanged

SetupStep == WiFi_begin \/ StatusCheck \/ Delay \/ udp_begin \/ Restart

----------------------------------------------------------------------------
(* Initial states and the specification of the receivers *)

\* None of the sensor, text or flame sketches runs
NoApp == [pc |-> "none"]

InitCommon ==
    /\ app = NoApp
    /\ rx = <<>>
    /\ udpq = <<>>
    /\ buf = [k \in BufIdx |-> 0]
    /\ receivedChunks = [i \in FlagIdx |-> 0]
    /\ presented = [i \in PixelIdx |-> Black]
    /\ fresh = {}
    /\ torn = FALSE
    /\ ev = NoEvent

NoStream == [garbage |-> <<>>, tail |-> <<>>]

Init ==
    /\ sketch \in {"serial", "x2"}
    /\ InitCommon
    /\ hi = 0 /\ lo = 0 /\ rgb = Stale /\ dec = "none"
    /\ script = <<>> /\ sent = <<>>
    /\ shown = NoLog /\ stream = NoStream /\ boot = Running

Next ==
    \/ loop_x1
    \/ loop_j8
    \/ SendByte
    \/ loop_x2
    \/ ArriveDatagram

Spec == Init /\ [][Next]_vars

----------------------------------------------------------------------------
(* The pixel decode on its own: every pair of wire bytes, each decoder *)

Convert_x2 ==
    /\ dec = "none"
    /\ rgb' = convert16to24bit(hi, lo)
    /\ dec' = "x2"
    /\ UNCHANGED <<sketch, rx, udpq, buf, receivedChunks, presented, fresh, torn,
                   ev, hi, lo, scriptVars, auxVars>>

Convert_x1 ==
    /\ dec = "none"
    /\ rgb' = decode_x1(hi, lo)
    /\ dec' = "x1"
    /\ UNCHANGED <<sketch, rx, udpq, buf, receivedChunks, presented, fresh, torn,
                   ev, hi, lo, scriptVars, auxVars>>

Convert_j8 ==
    /\ dec = "none"
    /\ rgb' = decode_j8(hi, lo)
    /\ dec' = "j8"
    /\ UNCHANGED <<sketch, rx, udpq, buf, receivedChunks, presented, fresh, torn,
                   ev, hi, lo, scriptVars, auxVars>>

InitDecode ==
    /\ sketch = "decode"
    /\ InitCommon
    /\ hi \in 0 .. 255 /\ lo \in 0 .. 255
    /\ rgb = Stale /\ dec = "none"
    /\ script = <<>> /\ sent = <<>>
    /\ shown = NoLog /\ stream = NoStream /\ boot = Running

NextDecode ==
    \/ Convert_x2
    \/ Convert_x1
    \/ Convert_j8

SpecDecode == InitDecode /\ [][NextDecode]_vars

----------------------------------------------------------------------------
(* Scripted deliveries to the chunked receiver: the sender cuts its frames  *)
(* into full-size chunks and the network delivers a chosen sequence of them *)

\* Chunks per frame
NumChunks == BUFFER_SIZE \div CHUNK_SIZE

\* Datagrams delivered by one script: enough for two frames
ScriptLen == 2 * NumChunks

\* Datagrams the socket holds before the sketch parses them
MaxQueued == NumChunks

ValidChunks ==
    {Datagram(c, NumChunks, Slice(f, c, CHUNK_SIZE)) :
        c \in 0 .. (NumChunks - 1), f \in Frames}

Scripts == [1 .. ScriptLen -> ValidChunks]

ScriptSend ==
    /\ script # <<>>
    /\ boot.pc = "loop"                  \* the socket is open
    /\ Len(udpq) < MaxQueued
    /\ udpq' = Append(udpq, Head(script))
    /\ script' = Tail(script)
    /\ sent' = Append(sent, Head(script))
    /\ ev' = NoEvent
    /\ UNCHANGED <<sketch, buf, receivedChunks, presented, fresh,
                   rx, torn, decodeVars, auxVars>>

InitScript ==
    /\ sketch = "x2"
    /\ InitCommon
    /\ hi = 0 /\ lo = 0 /\ rgb = Stale /\ dec = "none"
    /\ script \in Scripts
    /\ sent = <<>>
    /\ shown = EmptyLog /\ stream = NoStream /\ boot = Running

NextScript ==
    \/ ScriptSend
    \/ loop_x2

SpecScript == InitScript /\ [][NextScript]_vars

----------------------------------------------------------------------------
(* Serial streams: the host has written a whole stream before loop() first  *)
(* runs, some bytes without a marker and then the rest                      *)

\* Bytes before the first marker
GarbageSeqs == {<<>>, <<255>>, <<0, 255>>}

\* The rest of the stream is empty or starts with a marker, and is at most
\* two markers with their payloads long
TailLen == 2 * (BUFFER_SIZE + 1)
Tails ==
    {<<>>} \cup UNION {{<<MARKER>> \o t : t \in [1 .. n -> ByteVals]}
                       : n \in 0 .. (TailLen - 1)}

\* The FIFO holds the stream when loop() first runs
InitStream ==
    /\ sketch = "serial"
    /\ stream \in [garbage : GarbageSeqs, tail : Tails]
    /\ rx = stream.garbage \o stream.tail
    /\ udpq = <<>>
    /\ buf = [k \in BufIdx |-> 0]
    /\ receivedChunks = [i \in FlagIdx |-> 0]
    /\ presented = [i \in PixelIdx |-> Black]
    /\ fresh = {} /\ torn = FALSE /\ ev = NoEvent
    /\ hi = 0 /\ lo = 0 /\ rgb = Stale /\ dec = "none"
    /\ script = <<>> /\ sent = <<>>
    /\ shown = EmptyLog /\ boot = Running /\ app = NoApp

NextStream ==
    \/ loop_x1
    \/ loop_j8

SpecStream == InitStream /\ [][NextStream]_vars

----------------------------------------------------------------------------
(* Bursts: either receiver with more input waiting than one iteration takes *)

InitBurst == InitStream \/ InitScript

NextBurst == NextStream \/ NextScript

SpecBurst == InitBurst /\ [][NextBurst]_vars

----------------------------------------------------------------------------
(* x2 from power-up: setup(), then loop() *)

\* Deliveries after start-up: one frame, its chunks in order
BootScript == <<Datagram(0, NumChunks, Slice("A", 0, CHUNK_SIZE)),
               Datagram(1, NumChunks, Slice("A", 1, CHUNK_SIZE))>>

InitBoot ==
    /\ sketch = "x2"
    /\ InitCommon
    /\ hi = 0 /\ lo = 0 /\ rgb = Stale /\ dec = "none"
    /\ script = BootScript /\ sent = <<>>
    /\ shown = NoLog /\ stream = NoStream
    /\ boot = PowerUp

NextBoot ==
    \/ WiFi_begin
    \/ Join
    \/ StatusCheck
    \/ Delay
    \/ udp_begin
    \/ Restart
    \/ ScriptSend
    \/ loop_x2

\* The processor keeps executing setup(): every step of it is eventually taken
SpecBoot == InitBoot /\ [][NextBoot]_vars /\ WF_vars(SetupStep)

----------------------------------------------------------------------------
(* The sensor sketches: j2_6dof, a11_i2c_accelerometer_LSM6DS3 and
   a11_i2c_accelerometer_LIS3DHTR *)

\* Iterations and waits that are followed before the counters stop
MaxTicks == 8

\* What imu.begin() returns: 0 on success, an error code otherwise
BeginStatus == {0, 1, 5}

\* The colours renderFrame() can leave in a pixel, two of them
ShaderVals == {Black, <<255, 216, 102>>}

\* The receivers' state, unused by the other sketches
restUnchanged ==
    UNCHANGED <<sketch, rx, udpq, buf, receivedChunks, fresh, torn, ev,
                decodeVars, scriptVars, shown, stream, boot>>

InitRest ==
    /\ rx = <<>> /\ udpq = <<>>
    /\ buf = [k \in BufIdx |-> 0]
    /\ receivedChunks = [i \in FlagIdx |-> 0]
    /\ presented = [i \in PixelIdx |-> Black]
    /\ fresh = {} /\ torn = FALSE /\ ev = NoEvent
    /\ hi = 0 /\ lo = 0 /\ rgb = Stale /\ dec = "none"
    /\ script = <<>> /\ sent = <<>>
    /\ shown = NoLog /\ stream = NoStream /\ boot = Running

\* A sensor sketch at power-up
SensorBoot ==
    [pc |-> "setup", status |-> 0, errorLines |-> 0, reads |-> 0, frames |-> 0,
     swaps |-> 0, waited |-> 0]

\* mutant: the result of begin() is ignored
InitFailed_never(status) == FALSE

\* if (imu.begin() != 0)
InitFailed(status) == status # 0

\* if (!LIS)
NotConnected(connected) == ~connected

\* backgroundLayer.fillScreen({0,0,0}); backgroundLayer.drawPixel(0, 0, {255,0,0})
ErrorFrame == [i \in PixelIdx |-> IF i = 0 THEN <<255, 0, 0>> ELSE Black]

\* j2_6dof: setup()
setup_j2_6dof ==
    /\ sketch = "j2_6dof" /\ app.pc = "setup"
    /\ \E status \in BeginStatus :
           IF InitFailed(status)
           THEN /\ app' = [app EXCEPT !.pc = "error", !.status = status,
                                      !.errorLines = 1, !.swaps = 1]
                /\ presented' = ErrorFrame
           ELSE /\ app' = [app EXCEPT !.pc = "loop", !.status = status]
                /\ UNCHANGED presented
    /\ restUnchanged

\* j2_6dof: while (1) { delay(1000); }
wait_j2_6dof ==
    /\ sketch = "j2_6dof" /\ app.pc = "error" /\ app.waited < MaxTicks
    /\ app' = [app EXCEPT !.waited = @ + 1]
    /\ UNCHANGED presented
    /\ restUnchanged

\* j2_6dof: loop(): readIMU(); renderFrame(iTime); swapBuffers(); delay(20)
loop_j2_6dof ==
    /\ sketch = "j2_6dof" /\ app.pc = "loop" /\ app.reads < MaxTicks
    /\ app' = [app EXCEPT !.reads = @ + 1, !.frames = @ + 1, !.swaps = @ + 1]
    /\ \E c \in ShaderVals : presented' = [i \in PixelIdx |-> c]
    /\ restUnchanged

\* LSM6DS3: setup()
setup_LSM6DS3 ==
    /\ sketch = "LSM6DS3" /\ app.pc = "setup"
    /\ \E status \in BeginStatus :
           app' = [app EXCEPT !.pc = IF InitFailed(status) THEN "error" ELSE "loop",
                              !.status = status]
    /\ UNCHANGED presented
    /\ restUnchanged

\* LSM6DS3: while (1) { Serial.println("Error initializing LSM6DS3."); delay(1000); }
error_LSM6DS3 ==
    /\ sketch = "LSM6DS3" /\ app.pc = "error" /\ app.waited < MaxTicks
    /\ app' = [app EXCEPT !.errorLines = @ + 1, !.waited = @ + 1]
    /\ UNCHANGED presented
    /\ restUnchanged

\* LSM6DS3: loop(): the gyroscope and accelerometer reads, delay(100)
loop_LSM6DS3 ==
    /\ sketch = "LSM6DS3" /\ app.pc = "loop" /\ app.reads < MaxTicks
    /\ app' = [app EXCEPT !.reads = @ + 1]
    /\ UNCHANGED presented
    /\ restUnchanged

\* LIS3DHTR: setup(): LIS.begin(WIRE, 0x19) and the configuration, no test
setup_LIS3DHTR ==
    /\ sketch = "LIS3DHTR" /\ app.pc = "setup"
    /\ app' = [app EXCEPT !.pc = "loop"]
    /\ UNCHANGED presented
    /\ restUnchanged

\* LIS3DHTR: loop(): if (!LIS) { println; while (1); } else the three reads
loop_LIS3DHTR ==
    /\ sketch = "LIS3DHTR" /\ app.pc = "loop" /\ app.reads < MaxTicks
    /\ \E connected \in BOOLEAN :
           IF NotConnected(connected)
           THEN app' = [app EXCEPT !.pc = "error", !.status = 1, !.errorLines = 1]
           ELSE app' = [app EXCEPT !.reads = @ + 1]
    /\ UNCHANGED presented
    /\ restUnchanged

\* LIS3DHTR: while (1);  The loop has no exit and the compilers of the
\* Arduino cores keep it: the processor spins
spin_LIS3DHTR ==
    /\ sketch = "LIS3DHTR" /\ app.pc = "error" /\ app.waited < MaxTicks
    /\ app' = [app EXCEPT !.waited = @ + 1]
    /\ UNCHANGED presented
    /\ restUnchanged

InitSensor ==
    /\ sketch \in {"j2_6dof", "LSM6DS3", "LIS3DHTR"}
    /\ InitRest
    /\ app = SensorBoot

NextSensor ==
    \/ setup_j2_6dof
    \/ wait_j2_6dof
    \/ loop_j2_6dof
    \/ setup_LSM6DS3
    \/ error_LSM6DS3
    \/ loop_LSM6DS3
    \/ setup_LIS3DHTR
    \/ loop_LIS3DHTR
    \/ spin_LIS3DHTR

SpecSensor == InitSensor /\ [][NextSensor]_vars

----------------------------------------------------------------------------
(* The 24-bit input path of x1 and x2: the branch taken when
   INCOMING_COLOR_DEPTH is 24, on a wire buffer of three bytes per pixel *)

\* The value INCOMING_COLOR_DEPTH is compared with in the first branch
DEPTH_24 == 24
\* BUFFER_SIZE = NUM_LEDS * (INCOMING_COLOR_DEPTH / 8) at that depth
BUFFER_SIZE_24 == NUM_LEDS * (DEPTH_24 \div 8)
BufIdx24 == 0 .. (BUFFER_SIZE_24 - 1)

\* Bytes of a 24-bit frame: three values that tell the channels apart
ByteVals24 == {0, 42, 255}

\* mutant: the channels are stored blue first
RECURSIVE DecodeLoop24_x1_bgr(_, _, _, _)
DecodeLoop24_x1_bgr(buffer, b, i, idx) ==
    IF i < NUM_LEDS
    THEN DecodeLoop24_x1_bgr(
             [buffer EXCEPT ![i] = << b[idx + 2], b[idx + 1], b[idx] >>],
             b, i + 1, idx + 3)
    ELSE buffer

\* x1: for (i < NUM_LEDS) { col->red = buf[idx++]; col->green = buf[idx++];
\*                          col->blue = buf[idx++]; }
RECURSIVE DecodeLoop24_x1(_, _, _, _)
DecodeLoop24_x1(buffer, b, i, idx) ==
    IF i < NUM_LEDS
    THEN DecodeLoop24_x1(
             [buffer EXCEPT ![i] = << b[idx], b[idx + 1], b[idx + 2] >>],
             b, i + 1, idx + 3)
    ELSE buffer

\* memcpy(dst, src, n): the first n bytes of dst become those of src
memcpy(dst, src, n) == [k \in DOMAIN dst |-> IF k < n THEN src[k] ELSE dst[k]]

\* The rgb24 at index i of a pixel array stored in the bytes mem: the fields
\* red, green and blue, one byte each, in this order
Rgb24At(mem, i) == << mem[3 * i], mem[3 * i + 1], mem[3 * i + 2] >>

\* x2: memcpy(buffer, buf, BUFFER_SIZE)
Copy24_x2(b) ==
    LET mem == memcpy([k \in BufIdx24 |-> -1], b, BUFFER_SIZE_24)
    IN  [i \in PixelIdx |-> Rgb24At(mem, i)]

\* A 24-bit frame is in the wire buffer and not yet decoded
Wire24(b) == [pc |-> "wire24", buf |-> b, by |-> "none"]

\* x1, depth 24: the decode of a frame read in full, and the swap
Decode24_x1 ==
    /\ sketch = "depth24" /\ app.by = "none"
    /\ presented' = DecodeLoop24_x1(backBuffer, app.buf, 0, 0)
    /\ app' = [app EXCEPT !.by = "x1"]
    /\ restUnchanged

\* x2, depth 24: the decode of a completed frame, and the swap
Decode24_x2 ==
    /\ sketch = "depth24" /\ app.by = "none"
    /\ presented' = Copy24_x2(app.buf)
    /\ app' = [app EXCEPT !.by = "x2"]
    /\ restUnchanged

InitDepth24 ==
    /\ sketch = "depth24"
    /\ InitRest
    /\ \E b \in [BufIdx24 -> ByteVals24] : app = Wire24(b)

NextDepth24 ==
    \/ Decode24_x1
    \/ Decode24_x2

SpecDepth24 == InitDepth24 /\ [][NextDepth24]_vars

----------------------------------------------------------------------------
(* Serial receivers fed by a well-formed sender: whole frames, a marker and
   BUFFER_SIZE payload bytes each, written byte by byte while loop() runs *)

\* Frames the host sends
HostFrames == 2
FRAME_LEN == BUFFER_SIZE + 1

\* The k-th byte the host sent (from 1) was sent as a marker
SentAsMarker(k) == k >= 1 /\ (k - 1) % FRAME_LEN = 0

\* The host at the start of its stream
HostStart == [pc |-> "host", sent |-> 0]

\* The host writes the next byte of its stream: the marker, or a payload byte
HostSend ==
    /\ sketch = "serial" /\ app.pc = "host"
    /\ app.sent < HostFrames * FRAME_LEN
    /\ \E b \in ByteVals :
           /\ SentAsMarker(app.sent + 1) => b = MARKER
           /\ rx' = Append(rx, b)
    /\ app' = [app EXCEPT !.sent = @ + 1]
    /\ ev' = NoEvent
    /\ UNCHANGED <<sketch, buf, presented, fresh, torn, udpVars, decodeVars,
                   scriptVars, shown, stream, boot>>

InitTorn ==
    /\ sketch = "serial"
    /\ InitRest
    /\ app = HostStart

NextTorn ==
    \/ HostSend
    \/ loop_x1
    \/ loop_j8

SpecTorn == InitTorn /\ [][NextTorn]_vars

----------------------------------------------------------------------------
(* a9_text_serial: a line read from the serial port is drawn as text *)

\* sizeof(msg), 32 in the source, scaled down
MSG_SIZE == 3
MsgIdx == 0 .. (MSG_SIZE - 1)

\* '\n'
NEWLINE == 10
\* Characters the host types: NUL, newline, 'A'
CharVals == {0, NEWLINE, 65}

\* Bytes that lie in memory behind msg, as an over-long read may find them
BehindMsg == {<<>>, <<65>>}

\* Stream::readBytesUntil(terminator, buffer, length) on the FIFO q, k bytes
\* stored so far: bytes are stored until length of them are, until the
\* terminator is read (and dropped), or until no byte arrives in time
RECURSIVE readBytesUntil(_, _, _, _, _)
readBytesUntil(terminator, m, length, q, k) ==
    IF k >= length \/ q = <<>>
    THEN [msg |-> m, rest |-> q, count |-> k]
    ELSE IF Head(q) = terminator
         THEN [msg |-> m, rest |-> Tail(q), count |-> k]
         ELSE readBytesUntil(terminator, [m EXCEPT ![k] = Head(q)], length,
                             Tail(q), k + 1)

\* The characters a C string function finds in msg: those before the first
\* NUL, and with no NUL in msg all of it and whatever lies behind it
RECURSIVE CString(_, _, _)
CString(m, k, behind) ==
    IF k >= MSG_SIZE THEN behind
    ELSE IF m[k] = 0 THEN <<>>
    ELSE <<m[k]>> \o CString(m, k + 1, behind)

\* char msg[32]; int frame = 0  (globals are zeroed)
TextBoot ==
    [pc |-> "text", msg |-> [k \in MsgIdx |-> 0], frame |-> 0,
     text |-> <<>>, count |-> 0]

\* a9_text_serial: loop()
loop_a9_text_serial ==
    /\ sketch = "a9_text_serial" /\ app.pc = "text"
    /\ app.frame < MaxTicks
    /\ LET got == IF rx # <<>>                          \* if (Serial.available())
                  THEN readBytesUntil(NEWLINE, app.msg, MSG_SIZE, rx, 0)
                  ELSE [msg |-> app.msg, rest |-> rx, count |-> 0]
       IN  /\ rx' = got.rest
           /\ \E behind \in BehindMsg :                 \* bg.drawString(x, y, red, msg)
                  app' = [app EXCEPT !.msg = got.msg,
                                     !.count = got.count,
                                     !.text = CString(got.msg, 0, behind),
                                     !.frame = @ + 1]
    /\ UNCHANGED <<sketch, udpq, buf, receivedChunks, presented, fresh, torn, ev,
                   decodeVars, scriptVars, shown, stream, boot>>

\* The host types one character
TypeChar ==
    /\ sketch = "a9_text_serial"
    /\ Len(rx) <= MSG_SIZE
    /\ \E c \in CharVals : rx' = Append(rx, c)
    /\ UNCHANGED <<sketch, udpq, buf, receivedChunks, presented, fresh, torn, ev,
                   decodeVars, scriptVars, shown, stream, boot, app>>

InitText ==
    /\ sketch = "a9_text_serial"
    /\ InitRest
    /\ app = TextBoot

NextText ==
    \/ loop_a9_text_serial
    \/ TypeChar

SpecText == InitText /\ [][NextText]_vars

----------------------------------------------------------------------------
(* a11_doom_flame: the fire of palette indices *)

\* TOTAL_WIDTH and TOTAL_HEIGHT of the flame, 32 and 32 in the source, scaled
\* down: two columns wrap around, three rows let a propagated row propagate
FLAME_WIDTH  == 2
FLAME_HEIGHT == 3
\* uint16_t num_pixels = TOTAL_WIDTH * TOTAL_HEIGHT
num_pixels == FLAME_WIDTH * FLAME_HEIGHT
FlameIdx  == 0 .. (num_pixels - 1)
\* The cells of the rows above the bottom row
UpperIdx  == 0 .. (FLAME_WIDTH * (FLAME_HEIGHT - 1) - 1)
ColumnIdx == 0 .. (FLAME_WIDTH - 1)

\* rgb24 palette[]
palette ==
    << <<0, 0, 0>>, <<42, 7, 7>>, <<128, 0, 0>>, <<180, 32, 0>>,
       <<220, 64, 0>>, <<255, 128, 0>>, <<255, 255, 128>> >>
\* sizeof(palette) / sizeof(palette[0])
palette_size == Len(palette)

\* random(0, 3)
Random3 == 0 .. 2
\* random(0, 3) == 0 ? 0 : random(0, 3) - 1
OffsetVals == {0} \cup {r - 1 : r \in Random3}
\* random(0, 3) == 0 ? 1 : 0
FadeVals == {0, 1}

\* palette[v]: an index past the palette reads what lies behind it
PaletteAt(v) == IF v < palette_size THEN palette[v + 1] ELSE Stale

\* palette_size - 1 - random(0, 3), stored in a uint8_t
BottomCell(r) == U8(palette_size - 1 - r)

\* (y + 1) * TOTAL_WIDTH + (x + offsetX + TOTAL_WIDTH) % TOTAL_WIDTH
previous_pixel(x, y, offsetX) ==
    (y + 1) * FLAME_WIDTH + ((x + offsetX + FLAME_WIDTH) % FLAME_WIDTH)

\* mutant: the difference is stored as it is
Propagate_nofloor(v, fade) == U8(v - fade)

\* max(0, pixel_data[previous_pixel] - fade), stored in a uint8_t
Propagate(v, fade) == U8(IF v - fade > 0 THEN v - fade ELSE 0)

\* The flame at power-up: pixel_data is zeroed
FlameBoot ==
    [pc |-> "flame", pixel_data |-> [i \in FlameIdx |-> 0],
     randomized |-> FALSE, inRow |-> TRUE]

\* The first loop: the bottom row of pd, from column i on, takes
\* palette_size - 1 - random(0, 3): the arrays that can result
RECURSIVE RandomizeBottom(_, _)
RandomizeBottom(pd, i) ==
    IF i >= FLAME_WIDTH THEN {pd}
    ELSE UNION {RandomizeBottom(
                    [pd EXCEPT ![FLAME_WIDTH * (FLAME_HEIGHT - 1) + i] = BottomCell(r)],
                    i + 1)
                : r \in Random3}

\* The cells that cell i can be read from, one for each offsetX
Sources(i) ==
    {previous_pixel(i % FLAME_WIDTH, i \div FLAME_WIDTH, offsetX) : offsetX \in OffsetVals}

\* The propagation loops, rows from the top down and columns from the left,
\* from cell i on: each cell is read from the row below, which this pass has
\* not yet written.  The arrays that can result
RECURSIVE PropagateFrom(_, _)
PropagateFrom(pd, i) ==
    IF i >= FLAME_WIDTH * (FLAME_HEIGHT - 1) THEN {pd}
    ELSE UNION {PropagateFrom([pd EXCEPT ![i] = Propagate(pd[s], fade)], i + 1)
                : s \in Sources(i), fade \in FadeVals}

\* Every index the propagation reads is a cell of the row below the cell written
ReadsInRow ==
    \A i \in UpperIdx : \A s \in Sources(i) :
        s \in FlameIdx /\ s \div FLAME_WIDTH = (i \div FLAME_WIDTH) + 1

\* a11_doom_flame: loop()
loop_a11_doom_flame ==
    /\ sketch = "a11_doom_flame" /\ app.pc = "flame"
    /\ \E lit \in RandomizeBottom(app.pixel_data, 0) :
       \E pd \in PropagateFrom(lit, 0) :
           app' = [app EXCEPT !.pixel_data = pd, !.randomized = TRUE,
                              !.inRow = ReadsInRow]
    /\ UNCHANGED <<sketch, rx, udpq, buf, receivedChunks, presented, fresh, torn, ev,
                   decodeVars, scriptVars, shown, stream, boot>>

InitFlame ==
    /\ sketch = "a11_doom_flame"
    /\ InitRest
    /\ app = FlameBoot

NextFlame == loop_a11_doom_flame

SpecFlame == InitFlame /\ [][NextFlame]_vars

----------------------------------------------------------------------------
(* Properties *)

\* The RGB565 decode as the specification states it (section 4.3)
Rgb565(H, L) ==
    LET value == H * 256 + L
    IN  << ((value \div 2048) % 32) * 8,
           ((value \div 32) % 64) * 4,
           (value % 32) * 8 >>

\* The frame that a wire buffer b (indexed from 0) decodes to
ExpectedFrame(b) == [i \in PixelIdx |-> Rgb565(b[2 * i], b[2 * i + 1])]

BlackFrame == [i \in PixelIdx |-> Black]

\* A step of a serial loop() that consumed input
SerialStep == sketch = "serial" /\ Len(rx') < Len(rx)
\* The FIFO starts with a marker followed by a whole payload / by less
FullFrameInput == rx # <<>> /\ Head(rx) = MARKER /\ Len(rx) - 1 >= BUFFER_SIZE
ShortInput     == rx # <<>> /\ Head(rx) = MARKER /\ Len(rx) - 1 < BUFFER_SIZE
\* The payload behind the marker, indexed from 0
Payload == [k \in BufIdx |-> rx[k + 2]]

\* A step of x2's loop() that took the datagram at the head of the socket
ChunkStep == sketch = "x2" /\ udpq # <<>> /\ udpq' = Tail(udpq)

(* C1: a marker followed by exactly BUFFER_SIZE payload bytes makes the
   iteration present one frame (one swap) whose pixel i is the decode of the
   word (payload[2i] << 8) | payload[2i+1]. *)
Thm_C1 ==
    [][ (SerialStep /\ FullFrameInput) =>
            /\ ev'.kind = "frame"
            /\ ev'.swaps = 1
            /\ \A i \in PixelIdx :
                   presented'[i] = Rgb565(Payload[2 * i], Payload[2 * i + 1]) ]_vars

W_C1 ==
    /\ ev.kind = "frame" /\ ev.by = "serial"
    /\ \A i \in PixelIdx : presented[i] = <<248, 252, 248>>

(* C2: a marker followed by a read of fewer than BUFFER_SIZE bytes decodes
   nothing, swaps nothing and leaves the presented frame as it was; a later
   marker followed by a whole payload is accepted and presented. *)
Thm_C2 ==
    [][ /\ (SerialStep /\ ShortInput) =>
               /\ ev'.kind = "short"
               /\ ev'.swaps = 0
               /\ ev'.written = 0
               /\ presented' = presented
        /\ (SerialStep /\ FullFrameInput /\ torn) =>
               /\ ev'.kind = "frame"
               /\ ev'.swaps = 1
               /\ presented' = ExpectedFrame(Payload) ]_vars

W_C2 == ev.kind = "frame" /\ ev.wasTorn /\ presented = ExpectedFrame(buf)

(* C3: a datagram whose chunkIndex is >= its totalChunks, or >= 8, is
   dropped: no flag is set, nothing is written into buf, no frame is
   presented. *)
CE_C3 ==
    [][ (/\ ChunkStep
         /\ Head(udpq).size >= HEADER_SIZE
         /\ \/ Head(udpq).chunkIndex >= Head(udpq).totalChunks
            \/ Head(udpq).chunkIndex >= RECEIVED_CHUNKS_LEN) =>
            /\ receivedChunks' = receivedChunks
            /\ buf' = buf
            /\ presented' = presented
            /\ ev'.swaps = 0 ]_vars

(* C4: for every datagram, every byte written into buf lies in
   [0, BUFFER_SIZE) and every index of receivedChunks written or read lies
   in [0, 8). *)
CE_C4 == ev.oob = {}

(* C5: processing a datagram presents a frame if and only if, after
   recording it, every index in [0, totalChunks) of the Chunk Completion Set
   is marked; then all flags are cleared; otherwise no flag is cleared and no
   frame is presented. *)
CE_C5 ==
    [][ (ChunkStep /\ Head(udpq).size >= HEADER_SIZE) =>
            LET d        == Head(udpq)
                recorded == MarkChunk(receivedChunks, d.chunkIndex)
                all      == \A i \in 0 .. (d.totalChunks - 1) :
                                i < RECEIVED_CHUNKS_LEN /\ recorded[i] # 0
            IN  /\ (ev'.swaps = 1) <=> all
                /\ ev'.swaps = 1 => receivedChunks' = [i \in FlagIdx |-> 0]
                /\ ev'.swaps = 0 =>
                       /\ presented' = presented
                       /\ \A i \in FlagIdx :
                              receivedChunks[i] # 0 => receivedChunks'[i] # 0 ]_vars

(* C6: at every decode, each of the BUFFER_SIZE bytes of buf has been
   written by the transport since the previous decode. *)
CE_C6 == ev.kind = "frame" => ev.populated = BUFFER_SIZE

\* The datagram carrying chunk c of sender frame f, and the bytes of frame f
ChunkOf(f, c) == Datagram(c, NumChunks, Slice(f, c, CHUNK_SIZE))
FrameBytes(f) == [k \in BufIdx |-> FrameByte(f, k)]
\* The whole script: what was sent and what is still to send
FullScript == sent \o script
\* The first NumChunks datagrams of the script are the chunks of frame f, in some order
DeliversFrame(f) ==
    {FullScript[j] : j \in 1 .. NumChunks} = {ChunkOf(f, c) : c \in 0 .. (NumChunks - 1)}
\* The first n datagrams of the script have been handled, and no more
Handled(n) == Len(sent) - Len(udpq) = n
\* The last step was an iteration of loop() that took a datagram
JustHandled == ev.kind \in {"chunk", "frame", "nodata", "runt"}

(* C7: from an empty Chunk Completion Set, the chunks of one frame delivered
   in reverse order (or any order) present exactly one frame, the same frame
   as in forward order: the decode of the sender's frame. *)
Thm_C7 ==
    \A f \in Frames :
        DeliversFrame(f) =>
            /\ (Len(sent) - Len(udpq) < NumChunks) =>
                   (presented = BlackFrame /\ ev.swaps = 0)
            /\ Handled(NumChunks) =>
                   /\ presented = drawString(ExpectedFrame(FrameBytes(f)))
                   /\ shown.frames = <<presented>>
                   /\ JustHandled => (ev.kind = "frame" /\ ev.swaps = 1)

W_C7 ==
    /\ Handled(NumChunks) /\ ev.kind = "frame"
    /\ \E f \in Frames : DeliversFrame(f)
    /\ sent[1].chunkIndex = NumChunks - 1 /\ sent[NumChunks].chunkIndex = 0

\* The bytes of buf in the region of chunk c
Region(c) == [j \in 1 .. CHUNK_SIZE |-> buf[c * CHUNK_SIZE + j - 1]]
\* The script starts with the same chunk index twice, with different payloads
Duplicate ==
    /\ FullScript[1].chunkIndex = FullScript[2].chunkIndex
    /\ FullScript[1].data # FullScript[2].data

(* C8: the same chunkIndex delivered twice with different payloads before
   the frame completes leaves the second payload in the chunk's region of
   buf and in the decoded frame, and the duplicate does not complete the
   frame while another index is unmarked. *)
Thm_C8 ==
    Duplicate =>
        LET c == FullScript[1].chunkIndex
        IN  /\ Handled(2) =>
                /\ Region(c) = sent[2].data
                /\ presented = BlackFrame
                /\ JustHandled => (ev.kind = "chunk" /\ ev.dup /\ ev.swaps = 0)
            /\ (Handled(3) /\ sent[3].chunkIndex = c) =>
                /\ Region(c) = sent[3].data
                /\ presented = BlackFrame
            /\ (Handled(3) /\ sent[3].chunkIndex # c) =>
                /\ Region(c) = sent[2].data
                /\ Region(sent[3].chunkIndex) = sent[3].data
                /\ presented = drawString(ExpectedFrame(buf))

W_C8 ==
    /\ Duplicate /\ Handled(3) /\ ev.kind = "frame"
    /\ Region(sent[2].chunkIndex) = sent[2].data
    /\ Region(sent[2].chunkIndex) # sent[1].data

(* C9: the decode of the word v = (H << 8) | L is red = ((v >> 11) & 0x1F) << 3,
   green = ((v >> 5) & 0x3F) << 2, blue = (v & 0x1F) << 3; the low 3 bits of
   red and blue and the low 2 bits of green are zero, red and blue are at most
   248, green at most 252, and 0xF800, 0x07E0, 0x001F, 0xFFFF decode to
   (248,0,0), (0,252,0), (0,0,248), (248,252,248). *)
Thm_C9 ==
    dec # "none" =>
        /\ rgb = Rgb565(hi, lo)
        /\ rgb[1] = 8 * (hi \div 8)
        /\ rgb[2] = 4 * ((hi % 8) * 8 + (lo \div 32))
        /\ rgb[3] = 8 * (lo % 32)
        /\ rgb[1] % 8 = 0 /\ rgb[2] % 4 = 0 /\ rgb[3] % 8 = 0
        /\ rgb[1] \in 0 .. 248 /\ rgb[2] \in 0 .. 252 /\ rgb[3] \in 0 .. 248
        /\ (hi = 248 /\ lo = 0)   => rgb = <<248, 0, 0>>
        /\ (hi = 7   /\ lo = 224) => rgb = <<0, 252, 0>>
        /\ (hi = 0   /\ lo = 31)  => rgb = <<0, 0, 248>>
        /\ (hi = 255 /\ lo = 255) => rgb = <<248, 252, 248>>

W_C9 == dec = "x2" /\ hi = 255 /\ lo = 255 /\ rgb = <<248, 252, 248>>

(* C10: a swap is issued only after all NUM_LEDS pixels of the drawing
   buffer were written from the current buf, one swap per completed frame and
   none otherwise; the presented frame changes only by such a swap. *)
Thm_C10 ==
    [][ /\ ev'.swaps \in {0, 1}
        /\ (ev'.swaps = 1) <=> (ev'.kind = "frame")
        /\ presented' # presented => ev'.swaps = 1
        /\ ev'.swaps = 1 =>
               /\ ev'.written = NUM_LEDS
               /\ \A i \in PixelIdx : presented'[i] # Stale
               /\ \A i \in PixelIdx :
                      (ev'.by = "x2" /\ i \in DebugTextPixels)
                      \/ presented'[i] = Rgb565(buf'[2 * i], buf'[2 * i + 1]) ]_vars

W_C10 == ev.kind = "frame" /\ ev.by = "x2" /\ ev.swaps = 1 /\ ev.written = NUM_LEDS

(* C11: in the chunked receiver the frame handed to the display on a
   completion is exactly the decode of buf: presented pixel i is
   decode(buf[2i], buf[2i+1]) for every i, no pixel being altered between the
   decode and the swap. *)
CE_C11 ==
    (ev.by = "x2" /\ ev.kind = "frame") =>
        \A i \in PixelIdx : presented[i] = Rgb565(buf[2 * i], buf[2 * i + 1])

\* The frames a serial stream q presents, as the specification frames it:
\* bytes up to a marker are skipped, a marker with BUFFER_SIZE bytes behind it
\* is a frame, a marker with fewer bytes behind it loses them
RECURSIVE ExpectedShown(_)
ExpectedShown(q) ==
    IF q = <<>> THEN <<>>
    ELSE IF Head(q) # MARKER THEN ExpectedShown(Tail(q))
    ELSE IF Len(q) - 1 >= BUFFER_SIZE
         THEN <<ExpectedFrame([k \in BufIdx |-> q[k + 2]])>>
              \o ExpectedShown(SubSeq(q, BUFFER_SIZE + 2, Len(q)))
         ELSE <<>>

(* C12: the frames a serial receiver presents do not depend on the bytes
   before the first marker: with any marker-free prefix the presented
   sequence is the one of the stream without the prefix, and while the prefix
   is being discarded buf and the presented frame keep their initial
   content. *)
Thm_C12 ==
    /\ shown.frames \o ExpectedShown(rx) = ExpectedShown(stream.tail)
    /\ Len(rx) >= Len(stream.tail) =>
           /\ buf = [k \in BufIdx |-> 0]
           /\ presented = BlackFrame
           /\ shown.frames = <<>>

W_C12 ==
    /\ stream.garbage = <<0, 255>> /\ rx = <<>>
    /\ Len(shown.frames) = 2 /\ presented = shown.frames[2]

(* C13: a datagram of fewer than HEADER_SIZE bytes (one byte) is a no-op in
   the chunked receiver: flags, buf and the presented frame are unchanged and
   no completion happens, whatever the unset totalChunks holds. *)
Thm_C13 ==
    [][ (ChunkStep /\ Head(udpq).size < HEADER_SIZE) =>
            /\ receivedChunks' = receivedChunks
            /\ buf' = buf
            /\ presented' = presented
            /\ ev'.kind = "runt"
            /\ ev'.swaps = 0 ]_vars

\* The unset totalChunks held 1 while flag 0 was set: a completion check
\* would have found the frame complete
W_C13 ==
    /\ ev.kind = "runt" /\ ev.totalChunks = 1
    /\ receivedChunks[0] # 0

\* An iteration of x2's loop() that finds no datagram
IdleStep == sketch = "x2" /\ udpq = <<>> /\ ev'.by = "x2"
\* The datagram at the head of the socket carries the only chunk still missing
LastMissing ==
    \A i \in 0 .. (Head(udpq).totalChunks - 1) :
        i = Head(udpq).chunkIndex \/ receivedChunks[i] # 0

(* C14: the chunked receiver has no timeout: an iteration without a datagram
   changes neither the flags nor buf and presents nothing, so a pending frame
   keeps its flags through any number of such iterations, and it completes
   as soon as the missing chunk is delivered. *)
Thm_C14 ==
    [][ /\ IdleStep =>
               /\ receivedChunks' = receivedChunks
               /\ buf' = buf
               /\ presented' = presented
               /\ ev'.kind = "idle"
               /\ ev'.swaps = 0
        /\ (ChunkStep /\ LastMissing) =>
               /\ ev'.kind = "frame"
               /\ presented' = drawString(ExpectedFrame(buf'))
               /\ receivedChunks' = [i \in FlagIdx |-> 0] ]_vars

W_C14 ==
    /\ shown.waited /\ ev.kind = "frame" /\ Len(shown.frames) = 1
    /\ Len(sent) = NumChunks

\* Number of datagrams the sketch has taken from the socket
NumHandled == Len(sent) - Len(udpq)
\* Number of datagrams taken when the previous frame was presented (0: none)
PreviousCompletion ==
    IF Len(shown.at) >= 2 THEN shown.at[Len(shown.at) - 1] ELSE 0
\* Position in sent of the most recent datagram taken with chunkIndex k (0: none)
MostRecent(k) ==
    LET js == {j \in 1 .. NumHandled : sent[j].chunkIndex = k}
    IN  IF js = {} THEN 0 ELSE CHOOSE j \in js : \A o \in js : o <= j

(* C15: chunks are matched by index only: whenever a frame is presented, the
   region of each chunk k < totalChunks holds the payload of the most recent
   datagram with chunkIndex k, and that datagram arrived after the previous
   completion, whatever sender frame it was cut from; a presented frame may
   so combine chunks of different sender frames. *)
Thm_C15 ==
    ev.kind = "frame" =>
        \A k \in 0 .. (ev.totalChunks - 1) :
            /\ MostRecent(k) > PreviousCompletion
            /\ Region(k) = sent[MostRecent(k)].data

\* A mixed frame: chunk 0 of frame A and chunk 1 of frame B, presented
W_C15 ==
    /\ ev.kind = "frame"
    /\ Region(0) = Slice("A", 0, CHUNK_SIZE)
    /\ Region(1) = Slice("B", 1, CHUNK_SIZE)
    /\ presented = drawString(ExpectedFrame(buf))

(* C16: latest value wins: the frame most recently handed to the display is
   the decode of the most recently completed payload; frames are handed over
   in completion order, one hand-over per completion, none queued or handed
   over twice. *)
CE_C16 ==
    /\ Len(shown.frames) = Len(shown.payloads)
    /\ shown.frames = <<>> => presented = BlackFrame
    /\ shown.frames # <<>> =>
           /\ presented = shown.frames[Len(shown.frames)]
           /\ presented = ExpectedFrame(shown.payloads[Len(shown.payloads)])

\* q is what is left of p after its first bytes were taken
IsSuffix(q, p) ==
    Len(q) <= Len(p) /\ q = SubSeq(p, Len(p) - Len(q) + 1, Len(p))

(* C17: one unit of work per poll: an iteration of a serial loop() examines
   at most one candidate marker byte, reads at most one payload and swaps at
   most once; an iteration of the chunked loop() takes at most one datagram
   and swaps at most once. *)
Thm_C17 ==
    [][ /\ ev'.by = "serial" =>
               /\ IsSuffix(rx', rx)
               /\ Len(rx) - Len(rx') <= 1 + BUFFER_SIZE
               /\ (rx # <<>> /\ Head(rx) # MARKER) => rx' = Tail(rx)
               /\ ev'.reads <= 1
               /\ ev'.swaps <= 1
               /\ Len(shown'.frames) = Len(shown.frames) + ev'.swaps
        /\ ev'.by = "x2" =>
               /\ udpq' = (IF udpq = <<>> THEN <<>> ELSE Tail(udpq))
               /\ ev'.swaps <= 1
               /\ Len(shown'.frames) = Len(shown.frames) + ev'.swaps ]_vars

\* A frame was presented while another whole frame was waiting in the FIFO
W_C17 ==
    /\ ev.by = "serial" /\ ev.kind = "frame"
    /\ Len(rx) = 1 + BUFFER_SIZE /\ Head(rx) = MARKER
    /\ Len(shown.frames) = 1

\* What an iteration that starts in WAITING_FOR_MARKER does with the FIFO q
Framing(q) ==
    IF q = <<>> THEN "idle"
    ELSE IF Head(q) # MARKER THEN "skip"
    ELSE IF Len(q) - 1 >= BUFFER_SIZE THEN "frame"
    ELSE "short"

(* C18: every iteration of a serial loop() starts in WAITING_FOR_MARKER,
   whatever the iterations before it saw (no byte, a non-marker byte, a
   short read, a full frame): what it does depends on the FIFO alone, an
   iteration is always possible, and a marker followed by a full payload is
   accepted from every reachable state. *)
Thm_C18 ==
    /\ [](sketch = "serial" => ENABLED (loop_x1 \/ loop_j8))
    /\ [][ ev'.by = "serial" =>
               /\ ev'.kind = Framing(rx)
               /\ ev'.wasTorn = torn
               /\ torn' = (Framing(rx) = "short" \/ (torn /\ Framing(rx) # "frame"))
               /\ Framing(rx) = "frame" =>
                      (presented' = ExpectedFrame(Payload) /\ ev'.swaps = 1) ]_vars

\* A frame accepted after a short read and a discarded byte
W_C18 ==
    /\ ev.by = "serial" /\ ev.kind = "frame" /\ ev.wasTorn
    /\ presented = ExpectedFrame(buf) /\ rx = <<>> /\ ~torn

\* An iteration of a serial loop() that finds no byte, or a byte that is not the marker
NoMarkerStep ==
    /\ sketch = "serial" /\ ev'.by = "serial"
    /\ rx = <<>> \/ Head(rx) # MARKER

(* C19: a poll of a serial receiver that finds no byte, or a byte other than
   0x2A, leaves buf, the back buffer and the presented frame unchanged, reads
   no payload, swaps nothing and consumes at most that one byte. *)
Thm_C19 ==
    [][ NoMarkerStep =>
            /\ buf' = buf
            /\ presented' = presented
            /\ ev'.kind = (IF rx = <<>> THEN "idle" ELSE "skip")
            /\ ev'.written = 0
            /\ ev'.reads = 0
            /\ ev'.swaps = 0
            /\ rx' = (IF rx = <<>> THEN <<>> ELSE Tail(rx)) ]_vars

\* A byte was discarded while a marker and payload bytes waited behind it
W_C19 ==
    /\ ev.by = "serial" /\ ev.kind = "skip"
    /\ Len(rx) = BUFFER_SIZE /\ Head(rx) = MARKER

\* The longest one pass of the wait loop takes
MaxPeriod == CHECK_DELAY + 1

\* loop() runs, and the socket is open, only after setup() saw the connection;
\* the wait is bounded and a restart is the first check past the timeout
BootSafe ==
    /\ boot.pc \in {"begin", "loop"} => (boot.seen /\ boot.connected)
    /\ (ev.by = "x2" \/ udpq # <<>> \/ sent # <<>>) => (boot.pc = "loop" /\ boot.seen)
    /\ boot.pc = "delay" => boot.elapsed <= WIFI_TIMEOUT
    /\ boot.pc \in {"check", "restart"} => boot.elapsed <= WIFI_TIMEOUT + MaxPeriod
    /\ boot.pc = "restart" => (boot.elapsed > WIFI_TIMEOUT /\ ~boot.seen)

\* A status check that finds no connection more than WIFI_TIMEOUT ms after
\* connectionStart restarts the device; an earlier one waits again
BootCheck ==
    (boot.pc = "check" /\ ~boot.connected /\ boot'.pc # "check") =>
        boot'.pc = (IF boot.elapsed > WIFI_TIMEOUT THEN "restart" ELSE "delay")

(* C20: x2 processes no datagram (udp.begin and loop() are not reached)
   before setup() has seen the WiFi status connected; without a connection
   the device restarts at the first status check made more than 20000 ms
   after connectionStart, the checks being 500 ms apart, and setup() never
   waits forever. *)
Thm_C20 ==
    /\ []BootSafe
    /\ [][BootCheck]_vars
    /\ (boot.pc \in {"setup", "check", "delay"}) ~> (boot.pc \in {"loop", "restart"})

\* The check at exactly 20000 ms waited again, the next one restarted
W_C20 == boot.pc = "restart" /\ boot.elapsed = WIFI_TIMEOUT + CHECK_DELAY

\* A sensor sketch is in its error state
SensorFailed == app.pc = "error"

\* What each sketch has shown for the failure
FailureShown ==
    /\ sketch = "j2_6dof" =>
           presented = ErrorFrame /\ app.swaps = 1 /\ app.errorLines = 1
    /\ sketch = "LSM6DS3" => app.errorLines = app.waited
    /\ sketch = "LIS3DHTR" => app.errorLines = 1

\* The error state is kept, and the only thing that happens in it is the wait,
\* with one more error line per second in the LSM6DS3 sketch
FailureStep ==
    SensorFailed =>
        /\ app'.pc = "error"
        /\ app'.reads = app.reads /\ app'.frames = app.frames
        /\ app'.swaps = app.swaps /\ presented' = presented
        /\ app'.waited = app.waited + 1
        /\ app'.errorLines =
               (IF sketch = "LSM6DS3" THEN app.errorLines + 1 ELSE app.errorLines)

(* C21: a sensor that fails to initialize leaves the sketch in an error state
   for good: j2_6dof has presented once a black frame with one red pixel at
   (0,0) and waits, the LSM6DS3 sketch prints one error line per second, the
   LIS3DHTR sketch has printed one error line and waits; no sensor read and
   no normal frame follows. *)
Thm_C21 ==
    /\ [](app.pc \in {"loop", "error"} /\ sketch # "LIS3DHTR" =>
              (app.status # 0 <=> SensorFailed))
    /\ [](SensorFailed => FailureShown)
    /\ [](SensorFailed /\ sketch # "LIS3DHTR" => app.reads = 0 /\ app.frames = 0)
    /\ [](SensorFailed /\ app.waited < MaxTicks =>
              ENABLED (wait_j2_6dof \/ error_LSM6DS3 \/ spin_LIS3DHTR))
    /\ [][FailureStep]_vars

\* The LSM6DS3 sketch printed its third error line, having read nothing
W_C21 ==
    /\ sketch = "LSM6DS3" /\ SensorFailed
    /\ app.errorLines = 3 /\ app.reads = 0

(* C22: on the 24-bit path, pixel i of the decoded frame is
   (buf[3i], buf[3i+1], buf[3i+2]), the bytes unchanged, in the serial client
   and in the chunked client alike. *)
Thm_C22 ==
    (sketch = "depth24" /\ app.by # "none") =>
        \A i \in PixelIdx :
            presented[i] = << app.buf[3 * i], app.buf[3 * i + 1], app.buf[3 * i + 2] >>

\* The serial client decoded a frame whose first pixel has three different bytes
W_C22 ==
    /\ sketch = "depth24" /\ app.by = "x1"
    /\ presented[0] = <<255, 42, 0>>
    /\ presented[NUM_LEDS - 1] = <<0, 42, 255>>

\* The position in the host's stream (from 1) of the byte that the last
\* iteration took as a marker: behind it come the ev.count bytes read as
\* payload and the bytes still in the FIFO
TakenAsMarker == app.sent - Len(rx) - ev.count

(* C23: fed whole sender frames, some of them torn by the read timeout, a
   serial receiver presents only frames decoded from the BUFFER_SIZE bytes
   that follow a byte the sender sent as a marker, and never takes a payload
   byte equal to 0x2A for a marker. *)
CE_C23 ==
    (sketch = "serial" /\ app.pc = "host" /\ ev.kind \in {"frame", "short"}) =>
        SentAsMarker(TakenAsMarker)

\* The frames handed to the display so far
NumShown == Len(shown.frames)

(* C24: when a payload is read in full, the marker and the BUFFER_SIZE bytes
   behind it are consumed in one iteration, bytes equal to 0x2A among them as
   pixel data like any other: exactly one frame is handed over, and the next
   byte examined as a marker is the one behind the last payload byte. *)
Thm_C24 ==
    /\ [][ (SerialStep /\ FullFrameInput) =>
               /\ buf' = Payload
               /\ rx' = SubSeq(rx, BUFFER_SIZE + 2, Len(rx))
               /\ ev'.kind = "frame" /\ ev'.reads = 1
               /\ NumShown' = NumShown + 1
               /\ shown'.payloads[NumShown'] = Payload ]_vars
    /\ [][ (SerialStep /\ ev.kind = "frame") =>
               /\ Head(rx) # MARKER => (rx' = Tail(rx) /\ ev'.kind = "skip")
               /\ Head(rx) = MARKER => ev'.kind \in {"frame", "short"} ]_vars

\* A payload made of 0x2A bytes only was presented as one frame, and the byte
\* behind it is the next one to be examined
W_C24 ==
    /\ sketch = "serial" /\ ev.kind = "frame"
    /\ \A k \in BufIdx : buf[k] = MARKER
    /\ shown.payloads = <<buf>>
    /\ rx # <<>> /\ Len(rx) = Len(stream.garbage) + Len(stream.tail) - FRAME_LEN

(* C25: a datagram of x2 whose header says totalChunks = 0 never makes a
   frame be presented and never clears a flag of receivedChunks. *)
CE_C25 ==
    [][ (/\ ChunkStep
         /\ Head(udpq).size >= HEADER_SIZE
         /\ Head(udpq).totalChunks = 0) =>
            /\ ev'.swaps = 0
            /\ presented' = presented
            /\ \A i \in FlagIdx : receivedChunks[i] # 0 => receivedChunks'[i] # 0 ]_vars

(* C26: a datagram of exactly HEADER_SIZE bytes marks no chunk, writes
   nothing into buf and runs no completion check: it completes no frame, not
   even when it names the only chunk index still missing. *)
Thm_C26 ==
    [][ (ChunkStep /\ Head(udpq).size = HEADER_SIZE) =>
            /\ receivedChunks' = receivedChunks
            /\ buf' = buf /\ fresh' = fresh
            /\ presented' = presented
            /\ ev'.kind = "nodata" /\ ev'.swaps = 0 /\ ev'.oob = {} ]_vars

\* Chunk 0 of 2 is in; a header-only datagram named chunk 1 of 2 and chunk 1
\* is still missing
W_C26 ==
    /\ ev.kind = "nodata" /\ ev.chunkIndex = 1 /\ ev.totalChunks = 2
    /\ receivedChunks[0] # 0 /\ receivedChunks[1] = 0
    /\ presented = BlackFrame

(* C27: for every pair of wire bytes (H, L) the inline decode of j8, the
   r5 / g6 / b5 decode of x1 and convert16to24bit of x2 give the same pixel. *)
Thm_C27 ==
    dec # "none" =>
        /\ rgb = decode_j8(hi, lo)
        /\ rgb = decode_x1(hi, lo)
        /\ rgb = convert16to24bit(hi, lo)

\* The x1 decode of 0x2A 0xFF, a word with bits in all three fields
W_C27 == dec = "x1" /\ hi = 42 /\ lo = 255 /\ rgb = <<40, 92, 248>>

\* The wire word of a pixel, rebuilt by truncation:
\* ((r >> 3) << 11) | ((g >> 2) << 5) | (b >> 3)
Encode565(p) == (p[1] \div 8) * 2048 + (p[2] \div 4) * 32 + (p[3] \div 8)

(* C28: the decode loses nothing: for every 16-bit word v, with (r, g, b) its
   decode, ((r >> 3) << 11) | ((g >> 2) << 5) | (b >> 3) is v again.  The
   word being a function of the pixel, no two words decode to the same
   pixel. *)
Thm_C28 ==
    dec # "none" => Encode565(rgb) = hi * 256 + lo

\* 0x07FF decoded by x2: green and blue full, red empty
W_C28 == dec = "x2" /\ hi = 7 /\ lo = 255 /\ rgb = <<0, 252, 248>> /\ Encode565(rgb) = 2047

(* C29: the msg buffer that a9_text_serial hands to drawString always holds a
   NUL terminator, also after MSG_SIZE or more bytes arrived without a
   newline. *)
CE_C29 ==
    sketch = "a9_text_serial" => \E k \in MsgIdx : app.msg[k] = 0

\* The row of cell i
RowOf(i) == i \div FLAME_WIDTH

\* The value cell i of the row below had when the pass read it: the bottom
\* row is randomized before the pass, the other rows are written after the
\* row above them
ReadValue(s) ==
    IF s \in UpperIdx THEN app.pixel_data[s] ELSE app'.pixel_data[s]

(* C30: every cell of the flame's pixel_data is a palette index, 0 to 6: the
   bottom row holds 4, 5 or 6 once randomized, a propagated cell is its source
   cell or one less, never below 0 and never wrapped around; and every source
   index read is a cell of the row directly below. *)
Thm_C30 ==
    /\ [](sketch = "a11_doom_flame" =>
              /\ \A i \in FlameIdx :
                     /\ app.pixel_data[i] \in 0 .. (palette_size - 1)
                     /\ PaletteAt(app.pixel_data[i]) # Stale
              /\ \A i \in FlameIdx \ UpperIdx :
                     app.randomized => app.pixel_data[i] \in {4, 5, 6}
              /\ app.inRow)
    /\ [][ sketch = "a11_doom_flame" =>
               \A i \in UpperIdx :
                   \E s \in FlameIdx :
                       /\ RowOf(s) = RowOf(i) + 1
                       /\ \/ app'.pixel_data[i] = ReadValue(s)
                          \/ app'.pixel_data[i] = ReadValue(s) - 1 ]_vars

\* After the first pass: the top row, read from zeroes, stayed 0; the row
\* above the bottom row faded to 3; the left column reads around the edge
W_C30 ==
    /\ sketch = "a11_doom_flame" /\ app.randomized
    /\ app.pixel_data[0] = 0
    /\ app.pixel_data[FLAME_WIDTH] = 3
    /\ previous_pixel(0, 0, -1) = 2 * FLAME_WIDTH - 1

====
